---- MODULE Spec2Model ----
(***************************************************************************)
(* A model of metal.js's core utilities (src/src/core.js) and of the       *)
(* delegated DOM event handle                                              *)
(* (src/packages/metal-dom/src/DomDelegatedEventHandle.js).                *)
(*                                                                         *)
(* The module holds five independent state machines, one per component.   *)
(* Each has its own Init/Next/Spec; the variables of the other components  *)
(* stay empty.                                                             *)
(***************************************************************************)
EXTENDS Integers, Sequences, FiniteSets, TLC

VARIABLES
    \* --- DomDelegatedEventHandle ---
    domData,        \* element -> [listeners, delegating]  (the per-element side table)
    handles,        \* sequence of constructed handles, a handle's identity is its index
    registered,     \* (history) handles built for a listener that was registered
    removed,        \* (history) handles on which removeListener() has been called
    lastCall,       \* (history) the last operation and the registry before it
    \* --- core.getUid ---
    uniqueIdCounter_,   \* core.uniqueIdCounter_
    uidOf,              \* object -> value of its core.UID_PROPERTY (0: not set)
    uidLog,             \* (history) the calls made so far, in order
    \* --- core.inherits / collectSuperClassesProperty / mergeSuperClassesProperty ---
    ctors,          \* constructor -> [superClass_, prototype, statics]
    protos,         \* heap of prototype objects: [proto, hasOwnCtor, ctor]
    parentOf,       \* (history) constructor -> parent given to the last inherits
    mergeCalls,     \* (history) <<ctor, prop>> -> number of mergeSuperClassesProperty calls
    mergeFnCalls,   \* (history) <<ctor, prop>> -> number of times opt_mergeFn ran
    lastClassOp,    \* (history) the last collect/merge call and its result
    \* --- type predicates ---
    predCall,       \* the last predicate call: [pred, val, ret]
    \* --- bind / rbind ---
    bindEnv,        \* [native]: whether Function.prototype.bind exists
    bound,          \* the function object returned by the last bind/rbind
    invokedWith,    \* (history) the arguments of the last call of the bound function
    invocation      \* the last invocation of the bound function's target

handleVars == <<domData, handles, registered, removed, lastCall>>
uidVars    == <<uniqueIdCounter_, uidOf, uidLog>>
classVars  == <<ctors, protos, parentOf, mergeCalls, mergeFnCalls, lastClassOp>>
predVars   == <<predCall>>
bindVars   == <<bindEnv, bound, invokedWith, invocation>>
vars       == <<handleVars, uidVars, classVars, predVars, bindVars>>

\* What the operations of one component leave alone: the other components.
notHandleVars == <<uidVars, classVars, predVars, bindVars>>
notUidVars    == <<handleVars, classVars, predVars, bindVars>>
notClassVars  == <<handleVars, uidVars, predVars, bindVars>>
notPredVars   == <<handleVars, uidVars, classVars, bindVars>>
notBindVars   == <<handleVars, uidVars, classVars, predVars>>

(***************************************************************************)
(* JavaScript values.  Every value is a record of the same shape so that   *)
(* values of different types can be compared.                              *)
(*   tag      : the value's type                                           *)
(*   num      : a number's value, a boolean's 0/1, an object's identity    *)
(*   str      : a string's characters                                      *)
(*   nodeType : an object's (or function's) nodeType property, 0 if absent *)
(*   elems    : an array's elements                                        *)
(***************************************************************************)
JSVal(tag, num, str, nodeType, elems) ==
    [tag |-> tag, num |-> num, str |-> str, nodeType |-> nodeType, elems |-> elems]

Undefined == JSVal("undefined", 0, "", 0, <<>>)
Null      == JSVal("null", 0, "", 0, <<>>)
Bool(b)   == JSVal("boolean", IF b THEN 1 ELSE 0, "", 0, <<>>)
Num(n)    == JSVal("number", n, "", 0, <<>>)
Str(s)    == JSVal("string", 0, s, 0, <<>>)
Obj(id, nodeType) == JSVal("object", id, "", nodeType, <<>>)
Fn(id, nodeType)  == JSVal("function", id, "", nodeType, <<>>)
Arr(elems) == JSVal("array", 0, "", 0, elems)

\* The typeof operator.
TypeOf(val) ==
    CASE val.tag = "null"  -> "object"
      [] val.tag = "array" -> "object"
      [] OTHER -> val.tag

\* ToBoolean: the value's truthiness.
Truthy(val) ==
    CASE val.tag = "undefined" -> FALSE
      [] val.tag = "null"      -> FALSE
      [] val.tag = "boolean"   -> val.num = 1
      [] val.tag = "number"    -> val.num # 0
      [] val.tag = "string"    -> val.str # ""
      [] OTHER -> TRUE

\* a && b, which returns one of its operands.
JsAnd(a, b) == IF Truthy(a) THEN b ELSE a

(***************************************************************************)
(* core.js: the type predicates.  Each returns a JavaScript value.         *)
(***************************************************************************)
isBoolean(val) == Bool(TypeOf(val) = "boolean")

isDef(val) == Bool(val # Undefined)

isNull(val) == Bool(val = Null)

isDefAndNotNull(val) == JsAnd(isDef(val), Bool(~Truthy(isNull(val))))

isElement(val) ==
    JsAnd(JsAnd(val, Bool(TypeOf(val) = "object")), Bool(val.nodeType = 1))

isFunction(val) == Bool(TypeOf(val) = "function")

isObject(val) ==
    Bool((TypeOf(val) = "object" /\ val # Null) \/ TypeOf(val) = "function")

isString(val) == Bool(TypeOf(val) = "string")

(***************************************************************************)
(* DomDelegatedEventHandle                                                 *)
(***************************************************************************)
Elements  == {"el1"}
Events    == {"click", "focus"}
Listeners == {"L1", "L2"}
\* What a caller may pass as opt_selector: nothing, or a selector string.
SelectorArgs == {Undefined, Str(".item"), Str(".row")}
Selectors == {".item", ".row"}

MaxHandles == 2

EmptyMap == [k \in {} |-> <<>>]

\* obj[key] = value on a plain object used as a map.
MapPut(map, key, value) ==
    [k \in DOMAIN map \cup {key} |-> IF k = key THEN value ELSE map[k]]

\* delete obj[key]
MapDelete(map, key) == [k \in DOMAIN map \ {key} |-> map[k]]

\* Array.prototype.indexOf, 1-based; 0 when obj is not an element.
IndexOf(arr, obj) ==
    IF \E i \in 1..Len(arr) : arr[i] = obj
    THEN CHOOSE i \in 1..Len(arr) :
            arr[i] = obj /\ \A j \in 1..(i - 1) : arr[j] # obj
    ELSE 0

\* array.remove(arr, obj): removes the first occurrence of obj, if any.
ArrayRemove(arr, obj) ==
    LET i == IndexOf(arr, obj)
    IN  IF i = 0 THEN arr
        ELSE SubSeq(arr, 1, i - 1) \o SubSeq(arr, i + 1, Len(arr))

\* domData.get(element, name, {}): the element's mapping of that name.
domDataGet(data, element, name) == data[element][name]

\* new DomDelegatedEventHandle(emitter, event, listener, opt_selector)
NewHandle(emitter, event, listener, opt_selector) ==
    [emitter_ |-> emitter, event_ |-> event, listener_ |-> listener,
     selector_ |-> opt_selector]

\* The constructor, called on its own: nothing is registered.
Construct(emitter, event, listener, opt_selector) ==
    /\ Len(handles) < MaxHandles
    /\ handles' = Append(handles, NewHandle(emitter, event, listener, opt_selector))
    /\ lastCall' = [op |-> "construct", h |-> Len(handles) + 1, threw |-> FALSE,
                    before |-> domData,
                    handle |-> NewHandle(emitter, event, listener, opt_selector),
                    again |-> FALSE]
    /\ UNCHANGED <<domData, registered, removed, notHandleVars>>

\* The registry after the event-binding subsystem has added a listener: it
\* is pushed on listeners[event], or on delegating[event].selectors[selector]
\* (delegating[event] being created on the first delegation of that event).
Registered(data, emitter, event, listener, opt_selector) ==
    LET reg == data[emitter]
        push(map, key) ==
            MapPut(map, key,
                Append(IF key \in DOMAIN map THEN map[key] ELSE <<>>, listener))
    IN  IF Truthy(isString(opt_selector))
        THEN LET sels == IF event \in DOMAIN reg.delegating
                         THEN reg.delegating[event].selectors ELSE EmptyMap
             IN  [data EXCEPT ![emitter].delegating =
                    MapPut(reg.delegating, event,
                           [selectors |-> push(sels, opt_selector.str)])]
        ELSE [data EXCEPT ![emitter].listeners = push(reg.listeners, event)]

\* A listener is registered and the handle of the subscription is built.
Register(emitter, event, listener, opt_selector) ==
    /\ Len(handles) < MaxHandles
    /\ domData' = Registered(domData, emitter, event, listener, opt_selector)
    /\ handles' = Append(handles, NewHandle(emitter, event, listener, opt_selector))
    /\ lastCall' = [op |-> "register", h |-> Len(handles) + 1, threw |-> FALSE,
                    before |-> domData,
                    handle |-> NewHandle(emitter, event, listener, opt_selector),
                    again |-> FALSE]
    /\ registered' = registered \cup {Len(handles) + 1}
    /\ UNCHANGED <<removed, notHandleVars>>

\* Whether removeListener() throws: delegating[this.event_] is undefined and
\* its .selectors is read.
RemoveThrows(data, handle) ==
    /\ Truthy(isString(handle.selector_))
    /\ handle.event_ \notin DOMAIN domDataGet(data, handle.emitter_, "delegating")

\* removeListener() deleting arr[key] without looking at its length.
RemoveResultDeletesAlways(data, handle) ==
    LET delegating == domDataGet(data, handle.emitter_, "delegating")
        listeners  == domDataGet(data, handle.emitter_, "listeners")
        selector   == handle.selector_
        byString   == Truthy(isString(selector))
        arr == IF byString THEN delegating[handle.event_].selectors ELSE listeners
        key == IF byString THEN selector.str ELSE handle.event_
        arr2 == IF key \in DOMAIN arr THEN MapDelete(arr, key) ELSE arr
    IN  IF byString
        THEN [data EXCEPT ![handle.emitter_].delegating[handle.event_].selectors = arr2]
        ELSE [data EXCEPT ![handle.emitter_].listeners = arr2]

\* removeListener() without the deletion of an emptied arr[key].
RemoveResultKeepsEmpty(data, handle) ==
    LET delegating == domDataGet(data, handle.emitter_, "delegating")
        listeners  == domDataGet(data, handle.emitter_, "listeners")
        selector   == handle.selector_
        byString   == Truthy(isString(selector))
        arr == IF byString THEN delegating[handle.event_].selectors ELSE listeners
        key == IF byString THEN selector.str ELSE handle.event_
        arr1 == IF key \in DOMAIN arr
                THEN [arr EXCEPT ![key] = ArrayRemove(arr[key], handle.listener_)]
                ELSE arr
    IN  IF byString
        THEN [data EXCEPT ![handle.emitter_].delegating[handle.event_].selectors = arr1]
        ELSE [data EXCEPT ![handle.emitter_].listeners = arr1]

\* removeListener() taking listeners[this.event_] whatever the selector.
RemoveResultIgnoresSelector(data, handle) ==
    LET listeners == domDataGet(data, handle.emitter_, "listeners")
        arr == listeners
        key == handle.event_
        arr1 == IF key \in DOMAIN arr
                THEN [arr EXCEPT ![key] = ArrayRemove(arr[key], handle.listener_)]
                ELSE arr
        arr2 == IF key \in DOMAIN arr1 /\ Len(arr1[key]) = 0
                THEN MapDelete(arr1, key)
                ELSE arr1
    IN  [data EXCEPT ![handle.emitter_].listeners = arr2]

\* The registry after a removeListener() that does not throw.
RemoveResult(data, handle) ==
    LET delegating == domDataGet(data, handle.emitter_, "delegating")
        listeners  == domDataGet(data, handle.emitter_, "listeners")
        selector   == handle.selector_
        byString   == Truthy(isString(selector))
        arr == IF byString THEN delegating[handle.event_].selectors ELSE listeners
        key == IF byString THEN selector.str ELSE handle.event_
        \* array.remove(arr[key] || [], listener) mutates arr[key] in place;
        \* the [] of a missing key is dropped.
        arr1 == IF key \in DOMAIN arr
                THEN [arr EXCEPT ![key] = ArrayRemove(arr[key], handle.listener_)]
                ELSE arr
        arr2 == IF key \in DOMAIN arr1 /\ Len(arr1[key]) = 0
                THEN MapDelete(arr1, key)
                ELSE arr1
    IN  IF byString
        THEN [data EXCEPT ![handle.emitter_].delegating[handle.event_].selectors = arr2]
        ELSE [data EXCEPT ![handle.emitter_].listeners = arr2]

\* handles[h].removeListener(): it throws before changing anything, or
\* changes the registry.
removeListener(h) ==
    /\ h \in 1..Len(handles)
    /\ IF RemoveThrows(domData, handles[h])
       THEN /\ domData' = domData
            /\ lastCall' = [op |-> "remove", h |-> h, threw |-> TRUE,
                            before |-> domData, handle |-> handles[h],
                            again |-> h \in removed]
       ELSE /\ domData' = RemoveResult(domData, handles[h])
            /\ lastCall' = [op |-> "remove", h |-> h, threw |-> FALSE,
                            before |-> domData, handle |-> handles[h],
                            again |-> h \in removed]
    /\ removed' = removed \cup {h}
    /\ UNCHANGED <<handles, registered, notHandleVars>>

\* An element nothing is registered on, and no handle.
HandleFresh ==
    /\ domData = [e \in Elements |-> [listeners |-> EmptyMap, delegating |-> EmptyMap]]
    /\ handles = <<>>
    /\ registered = {}
    /\ removed = {}
    /\ lastCall = [op |-> "none", h |-> 0, threw |-> FALSE, before |-> domData,
                   handle |-> NewHandle("", "", "", Undefined), again |-> FALSE]

(***************************************************************************)
(* DomDelegatedEventHandle: properties                                     *)
(***************************************************************************)
\* The buckets of an element's registry: listeners[event] (selector "") and
\* delegating[event].selectors[selector].
BucketIds ==
    {<<"listeners", ev, "">> : ev \in Events}
        \cup {<<"delegating", ev, sel>> : ev \in Events, sel \in Selectors}

\* The bucket a handle addresses.
BucketIdOf(handle) ==
    IF handle.selector_.tag = "string"
    THEN <<"delegating", handle.event_, handle.selector_.str>>
    ELSE <<"listeners", handle.event_, "">>

BucketExists(data, element, id) ==
    IF id[1] = "listeners"
    THEN id[2] \in DOMAIN data[element].listeners
    ELSE /\ id[2] \in DOMAIN data[element].delegating
         /\ id[3] \in DOMAIN data[element].delegating[id[2]].selectors

\* The bucket's sequence; the empty sequence when the bucket does not exist.
BucketSeq(data, element, id) ==
    IF ~BucketExists(data, element, id) THEN <<>>
    ELSE IF id[1] = "listeners" THEN data[element].listeners[id[2]]
    ELSE data[element].delegating[id[2]].selectors[id[3]]

Count(seq, x) == Cardinality({i \in 1..Len(seq) : seq[i] = x})

Others(seq, x) == SelectSeq(seq, LAMBDA y : y # x)

LastWasRemove == lastCall.op = "remove"
LastBucketBefore ==
    BucketSeq(lastCall.before, lastCall.handle.emitter_, BucketIdOf(lastCall.handle))
LastBucketAfter ==
    BucketSeq(domData, lastCall.handle.emitter_, BucketIdOf(lastCall.handle))

\* C1: removeListener() on a handle whose bucket does not exist (no
\* listeners[event], or no delegating[event] / no selectors[selector]) raises
\* no error and leaves both mappings unchanged.
C1_MissingBucketIsNoOp ==
    (LastWasRemove /\ ~BucketExists(lastCall.before, lastCall.handle.emitter_,
                                    BucketIdOf(lastCall.handle)))
        => (~lastCall.threw /\ domData = lastCall.before)

C3_NoEmptyBucket ==
    \A e \in Elements, id \in BucketIds :
        BucketExists(domData, e, id) => Len(BucketSeq(domData, e, id)) > 0

\* C3 witness: a removal has emptied a delegated bucket and its key is gone.
C3_Witness ==
    /\ LastWasRemove
    /\ lastCall.handle.selector_.tag = "string"
    /\ LastBucketBefore = <<lastCall.handle.listener_>>
    /\ ~BucketExists(domData, lastCall.handle.emitter_, BucketIdOf(lastCall.handle))

\* C9: once removeListener() has been called on a handle of a registered
\* subscription, a further call on it raises no error and leaves the
\* registry unchanged.
C9_RepeatedRemoveIsNoOp ==
    (LastWasRemove /\ lastCall.again /\ lastCall.h \in registered)
        => (~lastCall.threw /\ domData = lastCall.before)

\* C10: removeListener() leaves every bucket but the one its handle
\* addresses as it was (the other events, the other selectors, the other
\* mapping, the delegating entries themselves) and leaves the handle's
\* fields as they were.
C10_OnlyAddressedBucketChanges ==
    LastWasRemove =>
        /\ \A e \in Elements, id \in BucketIds :
              (e # lastCall.handle.emitter_ \/ id # BucketIdOf(lastCall.handle))
                 => /\ BucketExists(domData, e, id)
                         = BucketExists(lastCall.before, e, id)
                    /\ BucketSeq(domData, e, id) = BucketSeq(lastCall.before, e, id)
        /\ \A e \in Elements :
              DOMAIN domData[e].delegating = DOMAIN lastCall.before[e].delegating
        /\ handles[lastCall.h] = lastCall.handle

\* C10 witness: a removal changed its bucket while another bucket of the
\* same event, in the other mapping, held listeners.
C10_Witness ==
    /\ LastWasRemove
    /\ LastBucketAfter # LastBucketBefore
    /\ \E id \in BucketIds :
          /\ id # BucketIdOf(lastCall.handle)
          /\ id[1] # BucketIdOf(lastCall.handle)[1]
          /\ id[2] = lastCall.handle.event_
          /\ Len(BucketSeq(domData, lastCall.handle.emitter_, id)) > 0

(***************************************************************************)
(* core.getUid                                                             *)
(***************************************************************************)
\* core.uniqueIdCounter_ = 1
InitialUniqueIdCounter == 1

MaxUidCalls == 4

\* The objects getUid is given; they are ordinary, extensible objects.
UidObjectIds == {1, 2, 3}
UidArgs == {Obj(id, 0) : id \in UidObjectIds} \cup {Undefined, Null}

\* A getUid that stamps the object on every call.
getUidResultNoMemo(counter, props, opt_object) ==
    IF Truthy(opt_object)
    THEN [ret |-> counter, counter |-> counter + 1,
          props |-> [props EXCEPT ![opt_object.num] = counter]]
    ELSE [ret |-> counter, counter |-> counter + 1, props |-> props]

\* core.getUid(opt_object): the value returned, the counter and the objects'
\* UID_PROPERTY values afterwards.  props[id] = 0 stands for an object without
\* the property (undefined and 0 are both falsy for the || of the code).
getUidResult(counter, props, opt_object) ==
    IF Truthy(opt_object)
    THEN IF props[opt_object.num] # 0
         THEN [ret |-> props[opt_object.num], counter |-> counter, props |-> props]
         ELSE [ret |-> counter, counter |-> counter + 1,
               props |-> [props EXCEPT ![opt_object.num] = counter]]
    ELSE [ret |-> counter, counter |-> counter + 1, props |-> props]

getUid(opt_object) ==
    /\ Len(uidLog) < MaxUidCalls
    /\ LET r == getUidResult(uniqueIdCounter_, uidOf, opt_object)
       IN  /\ uniqueIdCounter_' = r.counter
           /\ uidOf' = r.props
           /\ uidLog' = Append(uidLog, [arg |-> opt_object, ret |-> r.ret])
    /\ UNCHANGED notUidVars

UidFresh ==
    /\ uniqueIdCounter_ = InitialUniqueIdCounter
    /\ uidOf = [id \in UidObjectIds |-> 0]
    /\ uidLog = <<>>

\* A call that asks for a new id: a call without an object, or the first
\* call with an object.
UidNewCall(i) ==
    \/ uidLog[i].arg.tag # "object"
    \/ \A k \in 1..(i - 1) : uidLog[k].arg # uidLog[i].arg

\* C4: the same object always gets the same integer; the calls that ask for
\* a new id (no object, or an object seen for the first time) get strictly
\* increasing, hence pairwise distinct, integers; the first value is 1.
C4_UidStableAndIncreasing ==
    /\ \A i, j \in 1..Len(uidLog) :
          (uidLog[i].arg.tag = "object" /\ uidLog[i].arg = uidLog[j].arg)
             => uidLog[i].ret = uidLog[j].ret
    /\ \A i, j \in 1..Len(uidLog) :
          (i < j /\ UidNewCall(i) /\ UidNewCall(j)) => uidLog[i].ret < uidLog[j].ret
    /\ \A i, j \in 1..Len(uidLog) :
          (uidLog[i].arg.tag = "object" /\ uidLog[j].arg.tag = "object"
             /\ uidLog[i].arg # uidLog[j].arg) => uidLog[i].ret # uidLog[j].ret
    /\ Len(uidLog) > 0 => uidLog[1].ret = 1

\* C4 witness: an object was given twice with another object and a call
\* without an object in between.
C4_Witness ==
    /\ Len(uidLog) = 4
    /\ uidLog[1].arg = Obj(1, 0) /\ uidLog[1].ret = 1
    /\ uidLog[2].arg = Obj(2, 0) /\ uidLog[2].ret = 2
    /\ uidLog[3].arg = Undefined /\ uidLog[3].ret = 3
    /\ uidLog[4].arg = Obj(1, 0) /\ uidLog[4].ret = 1

(***************************************************************************)
(* core.inherits, core.collectSuperClassesProperty,                        *)
(* core.mergeSuperClassesProperty                                          *)
(*                                                                         *)
(* A constructor is a function object with static properties; its          *)
(* prototype is an object of the heap `protos`.  A prototype object has a  *)
(* [[Prototype]] link (0: Object.prototype) and may have an own            *)
(* `constructor` property; a property it does not own is looked up along   *)
(* the links.                                                              *)
(***************************************************************************)
Classes == {"A", "B", "C"}
ClassOrder == <<"A", "B", "C">>
PropNames == {"ATTRS"}
\* What a class may hold as a static property: nothing, or a value.
StaticValues == {Undefined, Num(7)}
\* opt_mergeFn: absent, or a function of the collected array.
MergeFns == {"none", "count", "first"}

MaxInherits == 2
MaxMergeCalls == 2

MergedName(propertyName) == propertyName \o "_MERGED"
StaticNames == PropNames \cup {MergedName(p) : p \in PropNames}

\* childCtor.prototype of inherits, without the line that sets its constructor.
InheritedPrototypeNoCtor(parentPrototype, childCtor) ==
    [proto |-> parentPrototype, hasOwnCtor |-> FALSE, ctor |-> childCtor]

\* childCtor.prototype as inherits builds it: new TempCtor(), whose
\* [[Prototype]] is parentCtor.prototype, with constructor set to childCtor.
InheritedPrototype(parentPrototype, childCtor) ==
    [proto |-> parentPrototype, hasOwnCtor |-> TRUE, ctor |-> childCtor]

\* obj.constructor, looked up along the prototype chain.
RECURSIVE ConstructorOf(_, _)
ConstructorOf(heap, id) ==
    IF id = 0 THEN "Object"
    ELSE IF heap[id].hasOwnCtor THEN heap[id].ctor
    ELSE ConstructorOf(heap, heap[id].proto)

\* constructor.superClass_ and constructor[propertyName]; the built-in
\* Object constructor has neither.
SuperClassOf(cs, constructor) ==
    IF constructor \in Classes THEN cs[constructor].superClass_ ELSE 0
StaticOf(cs, constructor, propertyName) ==
    IF constructor \in Classes THEN cs[constructor].statics[propertyName]
    ELSE Undefined

\* The loop of collectSuperClassesProperty, run for at most `fuel` rounds:
\* the values pushed, and whether the loop has ended.
RECURSIVE CollectLoop(_, _, _, _, _)
CollectLoop(cs, heap, constructor, propertyName, fuel) ==
    IF SuperClassOf(cs, constructor) = 0
    THEN [values |-> <<>>, ended |-> TRUE]
    ELSE IF fuel = 0 THEN [values |-> <<>>, ended |-> FALSE]
    ELSE LET next == ConstructorOf(heap, SuperClassOf(cs, constructor))
             rest == CollectLoop(cs, heap, next, propertyName, fuel - 1)
         IN  [values |-> <<StaticOf(cs, next, propertyName)>> \o rest.values,
              ended |-> rest.ended]

\* core.collectSuperClassesProperty.  The loop's state is the constructor
\* it stands on, so a loop that has not ended after one round per class
\* never ends.
collectSuperClassesProperty(cs, heap, constructor, propertyName) ==
    LET loop == CollectLoop(cs, heap, constructor, propertyName,
                            Cardinality(Classes))
    IN  [values |-> <<StaticOf(cs, constructor, propertyName)>> \o loop.values,
         ended |-> loop.ended]

\* core.inherits(childCtor, parentCtor).  (The static `base` helper it also
\* installs is not a property any operation here reads.)
inherits(childCtor, parentCtor) ==
    /\ ~lastClassOp.diverged
    /\ Len(protos) < Cardinality(Classes) + MaxInherits
    /\ protos' = Append(protos,
                    InheritedPrototype(ctors[parentCtor].prototype, childCtor))
    /\ ctors' = [ctors EXCEPT
                    ![childCtor].superClass_ = ctors[parentCtor].prototype,
                    ![childCtor].prototype = Len(protos) + 1]
    /\ parentOf' = [parentOf EXCEPT ![childCtor] = parentCtor]
    /\ lastClassOp' = [lastClassOp EXCEPT !.op = "inherits"]
    /\ UNCHANGED <<mergeCalls, mergeFnCalls, notClassVars>>

\* A call of collectSuperClassesProperty.
Collect(constructor, propertyName) ==
    /\ ~lastClassOp.diverged
    /\ LET r == collectSuperClassesProperty(ctors, protos, constructor, propertyName)
       IN  lastClassOp' = [op |-> "collect", ctor |-> constructor,
                           prop |-> propertyName, diverged |-> ~r.ended,
                           ret |-> IF r.ended THEN Arr(r.values) ELSE Undefined,
                           computed |-> FALSE, nth |-> 0]
    /\ UNCHANGED <<ctors, protos, parentOf, mergeCalls, mergeFnCalls, notClassVars>>

\* The number of calls counted in `calls` for the keys of `keys`.
RECURSIVE TotalCalls(_, _)
TotalCalls(calls, keys) ==
    IF keys = {} THEN 0
    ELSE LET k == CHOOSE x \in keys : TRUE
         IN  calls[k] + TotalCalls(calls, keys \ {k})

\* opt_mergeFn(merged)
ApplyMergeFn(fn, merged) ==
    CASE fn = "count" -> Num(Len(merged.elems))
      [] fn = "first" -> merged.elems[1]
      [] OTHER -> merged

\* core.mergeSuperClassesProperty(constructor, propertyName, opt_mergeFn)
mergeSuperClassesProperty(constructor, propertyName, opt_mergeFn) ==
    LET mergedName == MergedName(propertyName)
        stored == ctors[constructor].statics[mergedName]
        collected == collectSuperClassesProperty(ctors, protos, constructor,
                                                 propertyName)
        merged == IF opt_mergeFn # "none"
                  THEN ApplyMergeFn(opt_mergeFn, Arr(collected.values))
                  ELSE Arr(collected.values)
        nth == mergeCalls[<<constructor, propertyName>>] + 1
    IN  /\ ~lastClassOp.diverged
        /\ TotalCalls(mergeCalls, DOMAIN mergeCalls) < MaxMergeCalls
        /\ mergeCalls' = [mergeCalls EXCEPT ![<<constructor, propertyName>>] = nth]
        /\ IF Truthy(stored)
           THEN /\ lastClassOp' = [op |-> "merge", ctor |-> constructor,
                                   prop |-> propertyName, diverged |-> FALSE,
                                   ret |-> stored, computed |-> FALSE, nth |-> nth]
                /\ UNCHANGED <<ctors, mergeFnCalls>>
           ELSE IF ~collected.ended
           THEN /\ lastClassOp' = [op |-> "merge", ctor |-> constructor,
                                   prop |-> propertyName, diverged |-> TRUE,
                                   ret |-> Undefined, computed |-> FALSE, nth |-> nth]
                /\ UNCHANGED <<ctors, mergeFnCalls>>
           ELSE /\ ctors' = [ctors EXCEPT ![constructor].statics[mergedName] = merged]
                /\ mergeFnCalls' =
                      IF opt_mergeFn # "none"
                      THEN [mergeFnCalls EXCEPT ![<<constructor, propertyName>>] = @ + 1]
                      ELSE mergeFnCalls
                /\ lastClassOp' = [op |-> "merge", ctor |-> constructor,
                                   prop |-> propertyName, diverged |-> FALSE,
                                   ret |-> merged, computed |-> TRUE, nth |-> nth]
        /\ UNCHANGED <<protos, parentOf, notClassVars>>

NoClassOp ==
    [op |-> "none", ctor |-> "", prop |-> "", diverged |-> FALSE,
     ret |-> Undefined, computed |-> FALSE, nth |-> 0]

\* Three constructor functions, each with the prototype object a function
\* is born with (its constructor property is the function) and with or
\* without a static property of each name.
ClassesDeclared ==
    /\ protos = [i \in 1..Len(ClassOrder) |->
                    [proto |-> 0, hasOwnCtor |-> TRUE, ctor |-> ClassOrder[i]]]
    /\ \E own \in [Classes -> [PropNames -> StaticValues]] :
          ctors = [c \in Classes |->
                    [superClass_ |-> 0,
                     prototype |-> CHOOSE i \in 1..Len(ClassOrder) : ClassOrder[i] = c,
                     statics |-> [n \in StaticNames |->
                                    IF n \in PropNames THEN own[c][n] ELSE Undefined]]]
    /\ parentOf = [c \in Classes |-> ""]
    /\ mergeCalls = [k \in Classes \X PropNames |-> 0]
    /\ mergeFnCalls = [k \in Classes \X PropNames |-> 0]
    /\ lastClassOp = NoClassOp

(***************************************************************************)
(* collectSuperClassesProperty / mergeSuperClassesProperty: properties     *)
(***************************************************************************)
\* The classes linked by inherits, from `constructor` up: the class, the
\* parent given to its last inherits, that parent's parent, ... and whether
\* this chain comes to a root within `fuel` links.
RECURSIVE InheritsChain(_, _, _)
InheritsChain(parents, constructor, fuel) ==
    IF parents[constructor] = ""
    THEN [classes |-> <<constructor>>, ended |-> TRUE]
    ELSE IF fuel = 0 THEN [classes |-> <<constructor>>, ended |-> FALSE]
    ELSE LET rest == InheritsChain(parents, parents[constructor], fuel - 1)
         IN  [classes |-> <<constructor>> \o rest.classes, ended |-> rest.ended]

LastChain == InheritsChain(parentOf, lastClassOp.ctor, Cardinality(Classes))

\* C8: for a constructor at the bottom of a chain of n classes linked by
\* inherits, collectSuperClassesProperty ends and returns n values: the
\* class's own value of the property, then its parent's, ... up to the root
\* (undefined for a class that does not define it).
C8_CollectFollowsChain ==
    (lastClassOp.op = "collect" /\ LastChain.ended)
        => /\ ~lastClassOp.diverged
           /\ lastClassOp.ret.tag = "array"
           /\ Len(lastClassOp.ret.elems) = Len(LastChain.classes)
           /\ \A i \in 1..Len(LastChain.classes) :
                 lastClassOp.ret.elems[i]
                    = ctors[LastChain.classes[i]].statics[lastClassOp.prop]

\* C8 witness: a chain of three classes was collected from its bottom, the
\* middle class not defining the property.
C8_Witness ==
    /\ lastClassOp.op = "collect"
    /\ LastChain.ended
    /\ Len(LastChain.classes) = 3
    /\ lastClassOp.ret = Arr(<<Num(7), Undefined, Num(7)>>)

\* C5: for every constructor and property name, opt_mergeFn runs at most
\* once, and a call after the first returns the stored value without
\* computing it again, whatever the first merge produced.
C5_MergedOnlyOnce ==
    /\ \A k \in DOMAIN mergeFnCalls : mergeFnCalls[k] <= 1
    /\ (lastClassOp.op = "merge" /\ lastClassOp.nth > 1) => ~lastClassOp.computed

(***************************************************************************)
(* The type predicates, called on a value                                  *)
(***************************************************************************)
PredicateNames ==
    {"isBoolean", "isDef", "isDefAndNotNull", "isElement", "isFunction",
     "isNull", "isObject", "isString"}

PredicateValues ==
    {Undefined, Null, Bool(TRUE), Bool(FALSE), Num(0), Num(1), Str(""), Str("a"),
     Obj(1, 0), Obj(2, 1), Obj(3, 3), Fn(1, 0), Fn(2, 1), Arr(<<>>), Arr(<<Num(1)>>)}

\* core[name](val)
Predicate(name, val) ==
    CASE name = "isBoolean"       -> isBoolean(val)
      [] name = "isDef"           -> isDef(val)
      [] name = "isDefAndNotNull" -> isDefAndNotNull(val)
      [] name = "isElement"       -> isElement(val)
      [] name = "isFunction"      -> isFunction(val)
      [] name = "isNull"          -> isNull(val)
      [] name = "isObject"        -> isObject(val)
      [] name = "isString"        -> isString(val)

CallPredicate(name, val) ==
    /\ predCall' = [pred |-> name, val |-> val, ret |-> Predicate(name, val)]
    /\ UNCHANGED notPredVars

NoPredicateCalled == predCall = [pred |-> "none", val |-> Undefined, ret |-> Undefined]

\* C6: every predicate returns true or false for every value, and isElement
\* returns true exactly for the objects whose nodeType is 1.
C6_PredicatesReturnBoolean ==
    predCall.pred # "none"
        => /\ predCall.ret \in {Bool(TRUE), Bool(FALSE)}
           /\ predCall.pred = "isElement"
                 => (predCall.ret = Bool(TRUE)
                        <=> (predCall.val.tag = "object" /\ predCall.val.nodeType = 1))

(***************************************************************************)
(* core.bind / core.rbind                                                  *)
(*                                                                         *)
(* A call is given its `arguments` as a sequence (1-based: arguments[1] is *)
(* fn, arguments[2] the context, the rest the partial arguments).  A       *)
(* function object returned by bind/rbind is a closure record; calling it  *)
(* invokes its target function, and that invocation is what is observed.   *)
(***************************************************************************)
BindFns == {Fn(1, 0), Fn(2, 0), Undefined}
BindContexts == {Obj(1, 0), Obj(2, 0)}
BindArgValues == {Str("a"), Str("b")}

MaxPartialArgs == 2
MaxCallArgs == 2

SeqsUpTo(S, n) == UNION {[1..k -> S] : k \in 0..n}

\* The `arguments` of a bind/rbind call: fn alone, or fn, a context and the
\* partial arguments.
BindArguments ==
    {<<fn>> : fn \in BindFns}
        \cup {<<fn, ctx>> \o P :
                fn \in BindFns, ctx \in BindContexts,
                P \in SeqsUpTo(BindArgValues, MaxPartialArgs)}

\* arguments[i], undefined past the end.
ArgAt(arguments, i) == IF i <= Len(arguments) THEN arguments[i] ELSE Undefined

\* Array.prototype.slice.call(arguments, 2)
SliceFrom2(arguments) == SubSeq(arguments, 3, Len(arguments))

\* fn.apply(receiver, args): the invocation of a target function.
Invocation(fn, receiver, args) ==
    [made |-> TRUE, fn |-> fn, receiver |-> receiver, args |-> args]

NoInvocation == [made |-> FALSE, fn |-> Undefined, receiver |-> Undefined, args |-> <<>>]

\* A function object made by bind/rbind: which function expression it is
\* and the variables it closes over.
Closure(kind, fn, context, args) ==
    [kind |-> kind, fn |-> fn, context |-> context, args |-> args]

\* Function.prototype.bind called with this = target and the arguments
\* (thisArg, ...partial): a bound function.
NativeBind(target, bindArguments) ==
    Closure("nativeBound", target, ArgAt(bindArguments, 1),
            SubSeq(bindArguments, 2, Len(bindArguments)))

bindWithArgs_(arguments) ==
    Closure("bindWithArgs", ArgAt(arguments, 1), ArgAt(arguments, 2),
            SliceFrom2(arguments))

\* fn.bind.apply(fn, arguments): the whole of `arguments`, fn included, is
\* handed to bind.
bindWithNativeApply_(arguments) ==
    Closure("bindWithNative", Undefined, Undefined,
            <<NativeBind(ArgAt(arguments, 1), arguments)>>)

\* fn.call.apply(fn.bind, arguments) is fn.bind.call(fn, context, ...args):
\* the closure holds the bound function in `bind`.
bindWithNative_(arguments) ==
    Closure("bindWithNative", Undefined, Undefined,
            <<NativeBind(ArgAt(arguments, 1), SubSeq(arguments, 2, Len(arguments)))>>)

bindWithoutArgs_(fn, context) ==
    Closure("bindWithoutArgs", fn, context, <<>>)

bindWithoutNative_(arguments) ==
    IF Len(arguments) > 2
    THEN bindWithArgs_(arguments)
    ELSE bindWithoutArgs_(ArgAt(arguments, 1), ArgAt(arguments, 2))

Threw == Closure("threw", Undefined, Undefined, <<>>)

\* core.bind.apply(core, arguments); hasNative: Function.prototype.bind exists.
bind(hasNative, arguments) ==
    IF ~Truthy(ArgAt(arguments, 1)) THEN Threw
    ELSE IF hasNative THEN bindWithNative_(arguments)
    ELSE bindWithoutNative_(arguments)

\* core.rbind.apply(core, arguments)
rbind(arguments) ==
    IF ~Truthy(ArgAt(arguments, 1)) THEN Threw
    ELSE IF Len(arguments) > 2
    THEN Closure("rbindWithArgs", ArgAt(arguments, 1), ArgAt(arguments, 2),
                 SliceFrom2(arguments))
    ELSE Closure("rbindWithoutArgs", ArgAt(arguments, 1), ArgAt(arguments, 2), <<>>)

\* Calling a bound function (of Function.prototype.bind) with any receiver.
CallNativeBound(boundFn, callArgs) ==
    Invocation(boundFn.fn, boundFn.context, boundFn.args \o callArgs)

\* Calling a function object made by bind/rbind with callArgs: the body of
\* its function expression.
CallClosure(closure, callArgs) ==
    CASE closure.kind = "bindWithArgs" ->
            \* newArgs = slice(arguments); unshift.apply(newArgs, args)
            Invocation(closure.fn, closure.context, closure.args \o callArgs)
      [] closure.kind = "bindWithNative" ->
            \* bind.apply(null, arguments)
            CallNativeBound(closure.args[1], callArgs)
      [] closure.kind = "bindWithoutArgs" ->
            Invocation(closure.fn, closure.context, callArgs)
      [] closure.kind = "rbindWithArgs" ->
            \* newArgs = slice(arguments); push.apply(newArgs, args)
            Invocation(closure.fn, closure.context, callArgs \o closure.args)
      [] closure.kind = "rbindWithoutArgs" ->
            Invocation(closure.fn, closure.context, callArgs)

\* bound = core.bind(...arguments)
Bind(arguments) ==
    /\ bound' = [op |-> "bind", arguments |-> arguments,
                 fn |-> bind(bindEnv.native, arguments)]
    /\ invocation' = NoInvocation
    /\ invokedWith' = <<>>
    /\ UNCHANGED <<bindEnv, notBindVars>>

\* bound = core.rbind(...arguments)
Rbind(arguments) ==
    /\ bound' = [op |-> "rbind", arguments |-> arguments, fn |-> rbind(arguments)]
    /\ invocation' = NoInvocation
    /\ invokedWith' = <<>>
    /\ UNCHANGED <<bindEnv, notBindVars>>

\* bound(...args)
Invoke(args) ==
    /\ bound.op # "none"
    /\ bound.fn # Threw
    /\ invocation' = CallClosure(bound.fn, args)
    /\ invokedWith' = args
    /\ UNCHANGED <<bindEnv, bound, notBindVars>>

NothingBound ==
    /\ bound = [op |-> "none", arguments |-> <<>>, fn |-> Threw]
    /\ invocation = NoInvocation
    /\ invokedWith = <<>>

\* C7: bind(fn, ctx, ...P)(...C) invokes fn with receiver ctx and arguments
\* P then C; rbind(fn, ctx, ...P)(...C) invokes fn with receiver ctx and
\* arguments C then P; bind's two paths (with and without the native bind)
\* give the same invocation.
C7_BindInvocation ==
    invocation.made =>
        LET fn  == ArgAt(bound.arguments, 1)
            ctx == ArgAt(bound.arguments, 2)
            P   == SubSeq(bound.arguments, 3, Len(bound.arguments))
        IN  /\ invocation.fn = fn
            /\ invocation.receiver = ctx
            /\ bound.op = "bind"  => invocation.args = P \o invokedWith
            /\ bound.op = "rbind" => invocation.args = invokedWith \o P
            /\ bound.op = "bind" =>
                  CallClosure(bind(TRUE, bound.arguments), invokedWith)
                     = CallClosure(bind(FALSE, bound.arguments), invokedWith)

\* C7 witness: bind(fn, ctx, 'a')('b') through the native path.
C7_Witness ==
    /\ invocation.made
    /\ bindEnv.native
    /\ bound.op = "bind"
    /\ bound.arguments = <<Fn(1, 0), Obj(1, 0), Str("a")>>
    /\ invokedWith = <<Str("b")>>
    /\ invocation = Invocation(Fn(1, 0), Obj(1, 0), <<Str("a"), Str("b")>>)

(***************************************************************************)
(* The specifications.  Each runs one component; the variables of the      *)
(* other components stay empty.                                            *)
(***************************************************************************)
HandleUnused ==
    /\ domData = <<>> /\ handles = <<>> /\ registered = {} /\ removed = {}
    /\ lastCall = <<>>
UidUnused == uniqueIdCounter_ = 0 /\ uidOf = <<>> /\ uidLog = <<>>
ClassUnused ==
    /\ ctors = <<>> /\ protos = <<>> /\ parentOf = <<>> /\ mergeCalls = <<>>
    /\ mergeFnCalls = <<>> /\ lastClassOp = <<>>
PredUnused == predCall = <<>>
BindUnused == bindEnv = <<>> /\ bound = <<>> /\ invokedWith = <<>> /\ invocation = <<>>

InitHandle == HandleFresh /\ UidUnused /\ ClassUnused /\ PredUnused /\ BindUnused

NextHandle ==
    \/ \E e \in Elements, ev \in Events, l \in Listeners, s \in SelectorArgs :
            Construct(e, ev, l, s)
    \/ \E e \in Elements, ev \in Events, l \in Listeners, s \in SelectorArgs :
            Register(e, ev, l, s)
    \/ \E h \in 1..MaxHandles : removeListener(h)

SpecHandle == InitHandle /\ [][NextHandle]_vars

InitUid == HandleUnused /\ UidFresh /\ ClassUnused /\ PredUnused /\ BindUnused

NextUid == \E a \in UidArgs : getUid(a)

SpecUid == InitUid /\ [][NextUid]_vars

InitClass == HandleUnused /\ UidUnused /\ ClassesDeclared /\ PredUnused /\ BindUnused

\* Classes are linked and their properties collected.
NextCollect ==
    \/ \E child \in Classes, parent \in Classes : inherits(child, parent)
    \/ \E c \in Classes, p \in PropNames : Collect(c, p)

SpecCollect == InitClass /\ [][NextCollect]_vars

\* Classes are linked and their properties merged.
NextMerge ==
    \/ \E child \in Classes, parent \in Classes : inherits(child, parent)
    \/ \E c \in Classes, p \in PropNames, f \in MergeFns :
            mergeSuperClassesProperty(c, p, f)

SpecMerge == InitClass /\ [][NextMerge]_vars

InitPredicates ==
    HandleUnused /\ UidUnused /\ ClassUnused /\ NoPredicateCalled /\ BindUnused

NextPredicates == \E name \in PredicateNames, val \in PredicateValues : CallPredicate(name, val)

SpecPredicates == InitPredicates /\ [][NextPredicates]_vars

InitBind ==
    /\ HandleUnused /\ UidUnused /\ ClassUnused /\ PredUnused
    /\ bindEnv \in {[native |-> TRUE], [native |-> FALSE]}
    /\ NothingBound

NextBind ==
    \/ \E a \in BindArguments : Bind(a)
    \/ \E a \in BindArguments : Rbind(a)
    \/ \E c \in SeqsUpTo(BindArgValues, MaxCallArgs) : Invoke(c)

SpecBind == InitBind /\ [][NextBind]_vars

====
